---- MODULE Spec2Model ----
(***************************************************************************)
(* Model of the senireligiuns-api backend (src/index.js): the per-resource *)
(* CRUD handlers with their blob-store calls, and the admin login / token  *)
(* guard.  Every handler is split at its awaits, so that requests          *)
(* interleave the way the event loop lets them.                            *)
(***************************************************************************)
EXTENDS Integers, Sequences, FiniteSets, Bags, TLC

VARIABLES R, table, nextId, bucket, issued, now, reqs, auth, tokenLog

vars == <<R, table, nextId, bucket, issued, now, reqs, auth, tokenLog>>

crudVars == <<R, table, nextId, bucket, issued, reqs>>
authVars == <<auth, tokenLog>>

---------------------------------------------------------------------------
(* Bounds of the model *)
MaxId == 1          \* ids a table can hold
MaxTime == 1        \* Date.now() of the CRUD specification reads 0..MaxTime
NReq == 2           \* requests of one behaviour, in flight together or in turn

Ids == 1..MaxId
Texts == {"B"}                    \* request-supplied scalar text
FileNames == {<<"a", " ", "b">>}       \* originalname of an attached file

---------------------------------------------------------------------------
(* The resources and what each one's routes look like *)
Resources == {"news", "hero", "extracurriculars", "kalender", "alumni",
              "galeri", "sarana", "headmaster-message", "sejarah",
              "visi-misi", "contacts"}

\* resources whose table has an image/file column (schema.prisma)
HasMedia(r) == r \notin {"visi-misi", "contacts"}

\* String (required) rather than String? in schema.prisma
MediaRequired(r) == r \in {"hero", "kalender", "galeri", "headmaster-message"}

\* the verbs each resource exposes
Routes(r) ==
  CASE r \in {"news", "extracurriculars", "alumni", "galeri", "sarana"}
         -> {"LIST", "GET", "POST", "PUT", "DELETE"}
    [] r \in {"hero", "headmaster-message", "visi-misi"} -> {"FIRST", "PUT"}
    [] r = "kalender" -> {"LIST", "PUT"}
    [] r = "sejarah" -> {"LIST", "POST", "PUT", "DELETE"}
    [] r = "contacts" -> {"LIST", "POST", "DELETE"}

\* does the handler wrap its awaits in try/catch?
HasTry(r, op) ==
  CASE op \in {"LIST", "GET", "FIRST"} -> r = "contacts"
    [] OTHER -> r \notin {"sejarah", "visi-misi"}

\* does the handler read the row (findUnique) before it writes?
FetchesFirst(r, op) ==
  CASE op = "PUT" -> r # "visi-misi"
    [] op = "DELETE" -> r # "contacts"
    [] OTHER -> FALSE

\* a catch block that answers every failure alike
CatchStatusAlways500(r, op) == 500

\* status of the catch block
CatchStatus(r, op) == IF r = "contacts" /\ op = "DELETE" THEN 404 ELSE 500

\* status and body kind of a successful request
SuccessStatus(r, op) ==
  CASE op = "DELETE" -> IF r \in {"sejarah", "contacts"} THEN 200 ELSE 204
    [] op = "POST" -> IF r = "contacts" THEN 201 ELSE 200
    [] OTHER -> 200

DeleteBodyKind(r) ==
  CASE r = "sejarah" -> "message"
    [] r = "contacts" -> "row"
    [] OTHER -> "empty"

---------------------------------------------------------------------------
(* Values *)
NULL == <<>>                      \* JS null in a media column
BUCKET_NAME == "uploads"

\* JS truthiness of a media value: null and "" are falsy
Truthy(v) == v # NULL /\ v # <<"">>

\* encodeURI on a file name, character by character (getPublicUrl applies it)
RECURSIVE encodeURI(_)
encodeURI(s) ==
  IF s = <<>> THEN <<>>
  ELSE (CASE Head(s) = " " -> <<"%", "2", "0">>
          [] Head(s) = "%" -> <<"%", "2", "5">>
          [] OTHER -> <<Head(s)>>) \o encodeURI(Tail(s))

\* decodeURIComponent, on the same alphabet
RECURSIVE decodeURIComponent(_)
decodeURIComponent(s) ==
  IF s = <<>> THEN <<>>
  ELSE IF Len(s) >= 3 /\ Head(s) = "%" /\ s[2] = "2" /\ s[3] = "0"
       THEN <<" ">> \o decodeURIComponent(SubSeq(s, 4, Len(s)))
  ELSE IF Len(s) >= 3 /\ Head(s) = "%" /\ s[2] = "2" /\ s[3] = "5"
       THEN <<"%">> \o decodeURIComponent(SubSeq(s, 4, Len(s)))
  ELSE <<Head(s)>> \o decodeURIComponent(Tail(s))

\* `${Date.now()}-${file.originalname}`
uniqueFilename(t, name) == <<t, name>>

\* the public URL of a key in the bucket
publicUrl(key) == <<BUCKET_NAME, key[1], encodeURI(key[2])>>

\* a key recovered without decoding the URL
filePathUndecoded(url) ==
  IF Len(url) = 3 /\ url[1] = BUCKET_NAME THEN <<url[2], url[3]>> ELSE url

\* the key deleteFromSupabase recovers from a URL: decode, strip the prefix
filePath(url) ==
  IF Len(url) = 3 /\ url[1] = BUCKET_NAME
  THEN <<url[2], decodeURIComponent(url[3])>>
  ELSE url

\* what a request may send as publishedAt
Dates == {"2024-01-01", "2024-01-01T00:00:00.000Z", "2024-01-02", "soon"}

\* the dates sent by the requests that are handled together
DatesOfRaces == {"2024-01-01", "2024-01-01T00:00:00.000Z"}

NoDate == ""                      \* the table has no publishedAt column
InvalidDate == "Invalid Date"

\* a Date object that keeps the text it was made from
newDateVerbatim(s) == s

\* new Date(publishedAt), written as JSON serialises the stored instant:
\* a date-only string is midnight UTC of that day
newDate(s) ==
  CASE s \in {"2024-01-01", "2024-01-01T00:00:00.000Z"} -> "2024-01-01T00:00:00.000Z"
    [] s \in {"2024-01-02", "2024-01-02T00:00:00.000Z"} -> "2024-01-02T00:00:00.000Z"
    [] OTHER -> InvalidDate

Row(text, media) == [text |-> text, media |-> media, publishedAt |-> NoDate]

NoBody == [kind |-> "none", rows |-> {}]
Body(kind, rows) == [kind |-> kind, rows |-> rows]

NewRequest == [op |-> "none", id |-> 0, file |-> <<>>, text |-> "A",
         publishedAt |-> NoDate, pc |-> "idle",
         existing |-> <<>>, found |-> "none", newImage |-> NULL,
         status |-> 0, body |-> NoBody, upUrls |-> <<>>, delCalls |-> <<>>,
         writes |-> 0, failed |-> "no"]

---------------------------------------------------------------------------
(* Initial state of the CRUD specification: a table of rows created        *)
(* earlier, whose media are null or adapter-issued URLs that are present   *)
(* in the bucket.                                                          *)
MaxSeed == MaxId

SeedUrl(i) == publicUrl(uniqueFilename(0, <<"s", ToString(i)>>))

SeedMedia(r, i) ==
  IF ~HasMedia(r) THEN {NULL}
  ELSE IF MediaRequired(r) THEN {SeedUrl(i)}
  ELSE {NULL, SeedUrl(i)}

\* publishedAt of a news row created earlier
SeedDate(r) == IF r = "news" THEN newDate("2024-01-01") ELSE NoDate

MediaOf(t) == {t[i].media : i \in DOMAIN t} \ {NULL}

Init ==
  /\ R \in Resources
  /\ \E n \in 0..MaxSeed :
       /\ nextId = n + 1
       /\ table \in {t \in [1..n -> [text : {"A"}, media : {NULL} \cup {SeedUrl(i) : i \in 1..n},
                                      publishedAt : {SeedDate(R)}]] :
                       \A i \in 1..n : t[i].media \in SeedMedia(R, i)}
  /\ issued = MediaOf(table)
  /\ bucket = {filePath(u) : u \in MediaOf(table)}
  /\ now = 0
  /\ reqs = EmptyBag
  /\ auth = [a \in {} |-> 0]
  /\ tokenLog = {}

---------------------------------------------------------------------------
(* Request handling *)
\* the requests being handled form a bag: one of them moves from rq to new
Set(rq, new) == reqs' = (reqs (-) SetToBag({rq})) (+) SetToBag({new})

Requests == BagToSet(reqs)

ErrorBody == Body("error", {})

\* a 2xx/4xx/5xx response sent by the handler itself
Respond(rq, status, body) == [rq EXCEPT !.pc = "done", !.status = status, !.body = body]

\* an await of the handler rejected: the catch block answers, or, in the
\* handlers that have none, the rejection leaves the handler unanswered
Fail(rq, what) ==
  IF HasTry(R, rq.op)
  THEN [Respond(rq, CatchStatus(R, rq.op), ErrorBody) EXCEPT !.failed = what]
  ELSE [rq EXCEPT !.pc = "escaped", !.failed = what]

\* the step a handler starts with
FirstPc(op, file) ==
  CASE op \in {"LIST", "GET", "FIRST"} -> "read"
    [] FetchesFirst(R, op) -> "fetch"
    [] op = "POST" /\ file # <<>> -> "upload"
    [] OTHER -> "write"

\* creates that have not yet taken their id
InFlightPosts ==
  BagCardinality([q \in {x \in Requests : x.op = "POST" /\ x.pc \in {"upload", "write"}} |-> reqs[q]])

\* does the handler read publishedAt from the request body?
TakesDate(r, op) == r = "news" /\ op \in {"POST", "PUT"}

\* a request arrives and is dispatched to its handler; ids up to maxId
Arrive(op, id, file, text, date, maxId) ==
  /\ BagCardinality(reqs) < NReq
  /\ op \in Routes(R)
  /\ id \in (IF op \in {"GET", "PUT", "DELETE"} THEN 1..maxId ELSE {0})
  /\ file # <<>> => (op \in {"POST", "PUT"} /\ HasMedia(R))
  /\ date # NoDate <=> TakesDate(R, op)
  /\ op = "POST" => nextId + InFlightPosts <= maxId
  /\ reqs' = reqs (+) SetToBag({[NewRequest EXCEPT !.op = op, !.id = id, !.file = file,
                                                    !.text = text, !.publishedAt = date,
                                                    !.pc = FirstPc(op, file)]})
  /\ UNCHANGED <<R, table, nextId, bucket, issued, now, auth, tokenLog>>

StartRequest(op, id, file, text, date) == Arrive(op, id, file, text, date, MaxId)

\* where an update or delete goes once the row has been read
AfterFetch(rq, row) ==
  CASE rq.op = "PUT" /\ rq.file # <<>> -> "upload"
    [] rq.op = "DELETE" /\ Truthy(row.media) -> "blobdel"
    [] OTHER -> "write"

\* const existing = await prisma.X.findUnique(...); if (!existing) return 404
Fetch(rq) ==
  /\ rq.pc = "fetch"
  /\ IF rq.id \in DOMAIN table
     THEN Set(rq, [rq EXCEPT !.existing = <<table[rq.id]>>, !.found = "present",
                            !.pc = AfterFetch(rq, table[rq.id])])
     ELSE Set(rq, [Respond(rq, 404, ErrorBody) EXCEPT !.found = "absent"])
  /\ UNCHANGED <<R, table, nextId, bucket, issued, now, auth, tokenLog>>

\* findUnique rejects (database error)
FetchFail(rq) ==
  /\ rq.pc = "fetch"
  /\ Set(rq, Fail(rq, "db"))
  /\ UNCHANGED <<R, table, nextId, bucket, issued, now, auth, tokenLog>>

\* an update that forgets the old file
AfterUploadKeepsOld(rq) == "write"

\* where a handler goes once the file is uploaded
AfterUpload(rq) ==
  IF rq.op = "PUT" /\ Truthy(rq.existing[1].media) THEN "blobdel" ELSE "write"

\* uploadToSupabase(req.file) resolves with the public URL; t is what its
\* Date.now() reads, the clock never running backwards
uploadToSupabase(rq, t) ==
  LET key == uniqueFilename(t, rq.file[1])
  IN
  /\ rq.pc = "upload"
  /\ t >= now
  /\ now' = t
  /\ key \notin bucket
  /\ bucket' = bucket \cup {key}
  /\ issued' = issued \cup {publicUrl(key)}
  /\ Set(rq, [rq EXCEPT !.newImage = publicUrl(key),
                       !.upUrls = Append(@, publicUrl(key)),
                       !.pc = AfterUpload(rq)])
  /\ UNCHANGED <<R, table, nextId, auth, tokenLog>>

\* the store answers the upload with an error: uploadToSupabase throws
uploadFails(rq) ==
  /\ rq.pc = "upload"
  /\ Set(rq, Fail(rq, "upload"))
  /\ UNCHANGED <<R, table, nextId, bucket, issued, now, auth, tokenLog>>

\* a handler that reads the row again and deletes the file it holds now
DeletedUrlOfCurrentRow(rq) ==
  IF rq.id \in DOMAIN table THEN table[rq.id].media ELSE rq.existing[1].media

\* the URL handed to deleteFromSupabase: the one read from the row at the
\* start of the handler
DeletedUrl(rq) == rq.existing[1].media

\* deleteFromSupabase(existing.image) resolves
deleteFromSupabase(rq) ==
  LET url == DeletedUrl(rq)
  IN
  /\ rq.pc = "blobdel"
  /\ bucket' = bucket \ {filePath(url)}
  /\ Set(rq, [rq EXCEPT !.delCalls = Append(@, url), !.pc = "write"])
  /\ UNCHANGED <<R, table, nextId, issued, now, auth, tokenLog>>

\* the store answers the remove with an error: deleteFromSupabase throws
deleteFails(rq) ==
  /\ rq.pc = "blobdel"
  /\ Set(rq, Fail([rq EXCEPT !.delCalls = Append(@, DeletedUrl(rq))], "blobdelete"))
  /\ UNCHANGED <<R, table, nextId, bucket, issued, now, auth, tokenLog>>

\* the media value an update stores: newImage || existing.image
UpdatedMedia(rq) ==
  IF ~HasMedia(R) THEN NULL
  ELSE IF Truthy(rq.newImage) THEN rq.newImage
  ELSE rq.existing[1].media

\* a handler that stores text of the request body as the media value
WrittenRowFromBody(rq) == Row(rq.text, <<rq.text>>)

\* the row a create or update writes
WrittenRow(rq) ==
  LET row == IF rq.op = "POST" THEN Row(rq.text, rq.newImage)
             ELSE Row(rq.text, UpdatedMedia(rq))
  IN IF TakesDate(R, rq.op) THEN [row EXCEPT !.publishedAt = newDate(rq.publishedAt)]
     ELSE row

\* the database refuses the write: no such row (P2025), null in a required
\* column, or an invalid Date
WriteRejected(rq) ==
  \/ rq.op \in {"PUT", "DELETE"} /\ rq.id \notin DOMAIN table
  \/ rq.op = "POST" /\ MediaRequired(R) /\ rq.newImage = NULL
  \/ TakesDate(R, rq.op) /\ newDate(rq.publishedAt) = InvalidDate

\* the response of a successful write
WriteResponse(rq) ==
  CASE rq.op = "POST" -> Body("row", {<<nextId, WrittenRow(rq)>>})
    [] rq.op = "PUT" -> Body("row", {<<rq.id, WrittenRow(rq)>>})
    [] OTHER -> Body(DeleteBodyKind(R),
                     IF DeleteBodyKind(R) = "row" THEN {<<rq.id, table[rq.id]>>} ELSE {})

\* a delete that answers without removing the row
WrittenTableKeepsRow(rq) ==
  CASE rq.op = "POST" -> [i \in DOMAIN table \cup {nextId} |->
                            IF i = nextId THEN Row(rq.text, rq.newImage) ELSE table[i]]
    [] rq.op = "PUT" -> [table EXCEPT ![rq.id] = Row(rq.text, rq.newImage)]
    [] OTHER -> table

\* the table after the write
WrittenTable(rq) ==
  CASE rq.op = "POST" -> [i \in DOMAIN table \cup {nextId} |->
                            IF i = nextId THEN WrittenRow(rq) ELSE table[i]]
    [] rq.op = "PUT" -> [table EXCEPT ![rq.id] = WrittenRow(rq)]
    [] OTHER -> [i \in DOMAIN table \ {rq.id} |-> table[i]]

\* await prisma.X.create / update / delete, then the response
Write(rq) ==
  /\ rq.pc = "write"
  /\ IF WriteRejected(rq)
     THEN /\ Set(rq, [Fail(rq, "rejected") EXCEPT
                       !.found = IF FetchesFirst(R, rq.op) \/ rq.op = "POST"
                                 THEN rq.found ELSE "absent"])
          /\ UNCHANGED <<table, nextId>>
     ELSE /\ table' = WrittenTable(rq)
          /\ nextId' = IF rq.op = "POST" THEN nextId + 1 ELSE nextId
          /\ Set(rq, [Respond(rq, SuccessStatus(R, rq.op), WriteResponse(rq)) EXCEPT
                       !.writes = @ + 1,
                       !.found = IF rq.op = "POST" THEN rq.found ELSE "present"])
  /\ UNCHANGED <<R, bucket, issued, now, auth, tokenLog>>

\* the write rejects for a reason of the database's own
WriteFail(rq) ==
  /\ rq.pc = "write"
  /\ Set(rq, Fail(rq, "db"))
  /\ UNCHANGED <<R, table, nextId, bucket, issued, now, auth, tokenLog>>

\* findMany / findUnique / findFirst of the GET routes
ReadResult(rq) ==
  CASE rq.op = "LIST" -> {<<i, table[i]>> : i \in DOMAIN table}
    [] rq.op = "GET" -> {<<i, table[i]>> : i \in DOMAIN table \cap {rq.id}}
    [] OTHER -> {<<i, table[i]>> : i \in {j \in DOMAIN table : \A k \in DOMAIN table : j <= k}}

Read(rq) ==
  /\ rq.pc = "read"
  /\ Set(rq, Respond(rq, 200, Body(IF rq.op = "LIST" THEN "rows" ELSE "row", ReadResult(rq))))
  /\ UNCHANGED <<R, table, nextId, bucket, issued, now, auth, tokenLog>>

ReadFail(rq) ==
  /\ rq.pc = "read"
  /\ Set(rq, Fail(rq, "db"))
  /\ UNCHANGED <<R, table, nextId, bucket, issued, now, auth, tokenLog>>

Next ==
  \/ \E op \in {"LIST", "GET", "FIRST", "POST", "PUT", "DELETE"},
        id \in Ids \cup {0}, file \in {<<>>} \cup {<<n>> : n \in FileNames},
        text \in Texts, date \in DatesOfRaces \cup {NoDate} :
          StartRequest(op, id, file, text, date)
  \/ \E rq \in Requests : Fetch(rq)
  \/ \E rq \in Requests : FetchFail(rq)
  \/ \E rq \in Requests, t \in 0..MaxTime : uploadToSupabase(rq, t)
  \/ \E rq \in Requests : uploadFails(rq)
  \/ \E rq \in Requests : deleteFromSupabase(rq)
  \/ \E rq \in Requests : deleteFails(rq)
  \/ \E rq \in Requests : Write(rq)
  \/ \E rq \in Requests : WriteFail(rq)
  \/ \E rq \in Requests : Read(rq)
  \/ \E rq \in Requests : ReadFail(rq)

Spec == Init /\ [][Next]_vars

---------------------------------------------------------------------------
(* Requests handled one after the other, every store call succeeding, on   *)
(* a table and a bucket that start empty.                                  *)
MaxRows == 2        \* ids of the one-at-a-time specification
MaxClock == 2       \* its Date.now() reads 0..MaxClock

InitSeq ==
  /\ R \in Resources
  /\ table = <<>>
  /\ nextId = 1
  /\ bucket = {}
  /\ issued = {}
  /\ now = 0
  /\ reqs = EmptyBag
  /\ auth = [a \in {} |-> 0]
  /\ tokenLog = {}

\* no request is being handled
Quiet == \A rq \in Requests : rq.pc = "done"

\* a request arrives once the one before it has been answered
ArriveInTurn(op, id, file, text, date) ==
  /\ reqs = EmptyBag
  /\ Arrive(op, id, file, text, date, MaxRows)

\* the create / update / delete is accepted by the database
WriteAccepted(rq) ==
  /\ ~WriteRejected(rq)
  /\ Write(rq)

\* the answered request is no longer looked at
Forget ==
  /\ Quiet
  /\ reqs # EmptyBag
  /\ reqs' = EmptyBag
  /\ UNCHANGED <<R, table, nextId, bucket, issued, now, auth, tokenLog>>

NextSeq ==
  \/ \E op \in {"LIST", "GET", "FIRST", "POST", "PUT", "DELETE"},
        id \in 0..MaxRows, file \in {<<>>} \cup {<<n>> : n \in FileNames},
        text \in Texts, date \in Dates \cup {NoDate} :
          ArriveInTurn(op, id, file, text, date)
  \/ \E rq \in Requests : Fetch(rq)
  \/ \E rq \in Requests, t \in 0..MaxClock : uploadToSupabase(rq, t)
  \/ \E rq \in Requests : deleteFromSupabase(rq)
  \/ \E rq \in Requests : WriteAccepted(rq)
  \/ \E rq \in Requests : Read(rq)
  \/ Forget

SpecSeq == InitSeq /\ [][NextSeq]_vars

---------------------------------------------------------------------------
(* Admin login and the token guard *)
NAuth == 2          \* login / secure-data requests of one behaviour

AuthSlots == 1..NAuth

MsPerSec == 1000        \* decoded.exp * 1000
ExpiresIn == 3600       \* expiresIn: "1h", in seconds

\* what Date.now() can read in the login specification (milliseconds)
AuthTimes == {0, 500} \cup {ExpiresIn * MsPerSec + d : d \in {0, 200, 500, 1000}}

SECRET_KEY == "SECRET_KEY"

UNDEFINED == "undefined"

\* bcrypt: the stored hash of a password, and bcrypt.compare
bcryptHash(p) == <<"bcrypt", p>>
bcryptCompare(password, hash) == bcryptHash(password) = hash

\* the admin table: one row
Admins == {[id |-> 1, username |-> "admin", password |-> bcryptHash("secret")]}

Usernames == {"admin", "guest"}
Passwords == {"secret", "wrong", UNDEFINED}

\* prisma.admin.findUnique({ where: { username } }): <<row>> or <<>>
findAdmin(username) ==
  IF \E a \in Admins : a.username = username
  THEN <<CHOOSE a \in Admins : a.username = username>>
  ELSE <<>>

\* a login that signs its tokens for two hours
jwtSignTwoHours(id, key, t) == <<key, id, t \div MsPerSec, (t \div MsPerSec) + 2 * ExpiresIn>>

\* jwt.sign({ id }, SECRET_KEY, { expiresIn: "1h" }) at clock reading t:
\* iat is the clock in whole seconds, exp = iat + 3600
jwtSign(id, key, t) == <<key, id, t \div MsPerSec, (t \div MsPerSec) + ExpiresIn>>

\* jwt.verify(token, SECRET_KEY) at clock reading t: "malformed", "signature",
\* "expired" when it throws, "ok" when it returns the payload
jwtVerify(token, key, t) ==
  IF Len(token) # 4 THEN "malformed"
  ELSE IF token[1] # key THEN "signature"
  ELSE IF t \div MsPerSec >= token[4] THEN "expired"
  ELSE "ok"

\* req.headers.authorization?.split(" ")[1]; <<>> stands for undefined and ""
bearerToken(header) == IF Len(header) >= 2 THEN header[2] ELSE <<>>

AccessDenied == "Access denied"
TokenExpired == "Token expired, please log in again"
InvalidToken == "Invalid token"
InvalidLogin == "Invalid username or password"
LoginError == "An error occurred during login"
SecuredData == "This is secured data for admin"

\* authenticateToken followed by the route body; t1 is the clock jwt.verify
\* reads, t2 the clock of the explicit expiry comparison
authenticateToken(header, t1, t2) ==
  LET token == bearerToken(header) IN
  IF token = <<>> THEN [status |-> 401, msg |-> AccessDenied, reached |-> FALSE]
  ELSE IF jwtVerify(token, SECRET_KEY, t1) # "ok"
       THEN [status |-> 403, msg |-> InvalidToken, reached |-> FALSE]
  ELSE IF token[4] * MsPerSec < t2
       THEN [status |-> 403, msg |-> TokenExpired, reached |-> FALSE]
  ELSE [status |-> 200, msg |-> SecuredData, reached |-> TRUE]

\* a login that tells an unknown user apart
UnknownUserResponseLeaky == [status |-> 404, msg |-> "Unknown username"]

\* the two 401 answers of the login handler
UnknownUserResponse == [status |-> 401, msg |-> InvalidLogin]
WrongPasswordResponse == [status |-> 401, msg |-> InvalidLogin]

NoAuth == [kind |-> "none", pc |-> "idle", username |-> "", password |-> "",
           header |-> <<>>, admin |-> <<>>, t1 |-> 0, t2 |-> 0, status |-> 0,
           msg |-> "", token |-> <<>>, reached |-> FALSE, dbError |-> FALSE]

SetAuth(a, rq) == auth' = [auth EXCEPT ![a] = rq]

AuthDone(rq, status, msg) == [rq EXCEPT !.pc = "done", !.status = status, !.msg = msg]

\* the tokens a client can put in its header: those it was issued, a token
\* signed with another key, and text that is no token
ForgedToken == jwtSign(1, "other", 0)
Garbage == <<"garbage">>
Headers == {<<>>, <<"Bearer">>, <<"Bearer", Garbage>>, <<"Bearer", ForgedToken>>}
             \cup {<<"Bearer", e[1]>> : e \in tokenLog}

InitAuth ==
  /\ R = "news"
  /\ table = [i \in {} |-> 0]
  /\ nextId = 1
  /\ bucket = {}
  /\ issued = {}
  /\ reqs = EmptyBag
  /\ now = 0
  /\ auth = [a \in AuthSlots |-> NoAuth]
  /\ tokenLog = {}

AuthFree(a) ==
  /\ auth[a].pc = "idle"
  /\ \A b \in AuthSlots : b < a => auth[b].pc # "idle"

\* POST /admin/login arrives
LoginStart(a, username, password) ==
  /\ AuthFree(a)
  /\ SetAuth(a, [NoAuth EXCEPT !.kind = "login", !.pc = "lookup",
                               !.username = username, !.password = password])
  /\ UNCHANGED <<crudVars, now, tokenLog>>

\* await prisma.admin.findUnique; if (!admin) return 401
LoginLookup(a) ==
  LET rq == auth[a]
      admin == findAdmin(rq.username)
  IN
  /\ rq.pc = "lookup"
  /\ IF admin = <<>>
     THEN SetAuth(a, AuthDone(rq, UnknownUserResponse.status, UnknownUserResponse.msg))
     ELSE SetAuth(a, [rq EXCEPT !.admin = admin, !.pc = "compare"])
  /\ UNCHANGED <<crudVars, now, tokenLog>>

\* findUnique rejects: the catch block answers 500
LoginLookupFail(a) ==
  /\ auth[a].pc = "lookup"
  /\ SetAuth(a, [AuthDone(auth[a], 500, LoginError) EXCEPT !.dbError = TRUE])
  /\ UNCHANGED <<crudVars, now, tokenLog>>

\* await bcrypt.compare; 401 on a mismatch, else jwt.sign and the token.
\* bcrypt.compare rejects when the password is no string (catch: 500).
LoginCompare(a, t) ==
  LET rq == auth[a]
      token == jwtSign(rq.admin[1].id, SECRET_KEY, t)
  IN
  /\ rq.pc = "compare"
  /\ t >= now
  /\ IF rq.password = UNDEFINED
     THEN /\ SetAuth(a, AuthDone(rq, 500, LoginError))
          /\ UNCHANGED <<now, tokenLog>>
     ELSE IF ~bcryptCompare(rq.password, rq.admin[1].password)
     THEN /\ SetAuth(a, AuthDone(rq, WrongPasswordResponse.status, WrongPasswordResponse.msg))
          /\ UNCHANGED <<now, tokenLog>>
     ELSE /\ SetAuth(a, [AuthDone(rq, 200, "token") EXCEPT !.token = token, !.t1 = t, !.t2 = t])
          /\ now' = t
          /\ tokenLog' = tokenLog \cup {<<token, t>>}
  /\ UNCHANGED crudVars

\* GET /api/admin/secure-data: the guard and the route body run synchronously
SecureData(a, header, t1, t2) ==
  LET res == authenticateToken(header, t1, t2) IN
  /\ AuthFree(a)
  /\ header \in Headers
  /\ now <= t1 /\ t1 <= t2
  /\ now' = t2
  /\ SetAuth(a, [NoAuth EXCEPT !.kind = "secure", !.pc = "done", !.header = header,
                               !.t1 = t1, !.t2 = t2, !.status = res.status,
                               !.msg = res.msg, !.reached = res.reached])
  /\ UNCHANGED <<crudVars, tokenLog>>

NextAuth ==
  \/ \E a \in AuthSlots, u \in Usernames, p \in Passwords : LoginStart(a, u, p)
  \/ \E a \in AuthSlots : LoginLookup(a)
  \/ \E a \in AuthSlots : LoginLookupFail(a)
  \/ \E a \in AuthSlots, t \in AuthTimes : LoginCompare(a, t)
  \/ \E a \in AuthSlots, t1 \in AuthTimes, t2 \in AuthTimes :
       \E h \in Headers : SecureData(a, h, t1, t2)

SpecAuth == InitAuth /\ [][NextAuth]_vars

---------------------------------------------------------------------------
(* Properties of the CRUD handlers (specification Spec) *)

Finished(rq) == rq.pc \in {"done", "escaped"}

\* C1: a DELETE whose id matches no row answers 404, makes no call to the
\* blob store (no delete, no upload) and writes nothing to the table.
C1_DeleteOfMissingRow ==
  \A rq \in Requests :
    (rq.op = "DELETE" /\ rq.found = "absent") =>
      /\ rq.pc = "done"
      /\ rq.status = 404
      /\ rq.delCalls = <<>>
      /\ rq.upUrls = <<>>
      /\ rq.writes = 0

C1_Witness ==
  \E rq \in Requests :
    /\ rq.op = "DELETE" /\ rq.found = "absent"
    /\ rq.pc = "done" /\ rq.status = 404
    /\ R = "contacts"

\* C2: a PUT with a file that succeeds on an existing row has made exactly
\* one blob delete call, for the media URL it read from the row, when that
\* URL was non-null, and none when it was null; the row it wrote holds the
\* URL its own upload returned.
C2_UpdateReplacesFile ==
  \A rq \in Requests :
    (rq.op = "PUT" /\ rq.file # <<>> /\ rq.pc = "done"
       /\ rq.status = 200) =>
      /\ Len(rq.upUrls) = 1
      /\ rq.delCalls = IF rq.existing[1].media # NULL
                            THEN <<rq.existing[1].media>> ELSE <<>>
      /\ rq.body.kind = "row"
      /\ \A e \in rq.body.rows :
           e[1] = rq.id /\ e[2].text = rq.text /\ e[2].media = rq.upUrls[1]
      /\ rq.body.rows # {}
      /\ rq.writes = 1

C2_Witness ==
  \E rq \in Requests :
    /\ rq.op = "PUT" /\ rq.file # <<>> /\ rq.pc = "done"
    /\ rq.status = 200
    /\ Len(rq.delCalls) = 1
    /\ rq.id \in DOMAIN table
    /\ table[rq.id].media = rq.upUrls[1]

\* C3: a PUT on an id that no row has answers 404 and uploads no file,
\* deletes no blob and writes nothing - on every resource with a PUT route.
C3_UpdateOfMissingRow ==
  \A rq \in Requests :
    (rq.op = "PUT" /\ rq.found = "absent") =>
      /\ rq.pc = "done"
      /\ rq.status = 404
      /\ rq.upUrls = <<>>
      /\ rq.delCalls = <<>>
      /\ rq.writes = 0

\* the status codes the interface documents
DocumentedStatus == {200, 201, 204, 401, 403, 404, 500}

\* C4: every failure of a store call is caught in its handler and answered
\* with a documented status code; none leaves the handler unanswered.
C4_EveryFailureAnswered ==
  \A rq \in Requests :
    rq.failed # "no" =>
      /\ rq.pc = "done"
      /\ rq.status \in DocumentedStatus

\* C8 (as amended): a DELETE on an existing id whose store calls all succeed
\* removes the row and answers 204 with an empty body on news,
\* extracurriculars, alumni, galeri and sarana, 200 with a message on
\* sejarah, and 200 with the deleted row on contacts.
C8_DeleteSucceeds ==
  \A rq \in Requests :
    (rq.op = "DELETE" /\ rq.pc = "done" /\ rq.failed = "no"
       /\ rq.found = "present") =>
      /\ rq.id \notin DOMAIN table
      /\ rq.writes = 1
      /\ CASE R = "sejarah" -> rq.status = 200 /\ rq.body = Body("message", {})
           [] R = "contacts" -> rq.status = 200 /\ rq.body.kind = "row"
                                  /\ \E e \in rq.body.rows : e[1] = rq.id
           [] OTHER -> rq.status = 204 /\ rq.body = Body("empty", {})

C8_Witness ==
  \E rq \in Requests :
    /\ rq.op = "DELETE" /\ rq.pc = "done" /\ rq.failed = "no"
    /\ rq.found = "present"
    /\ rq.status = 204
    /\ rq.delCalls # <<>>

\* C8 as first stated: every such DELETE answers 204 with an empty body.
C8_Delete204Everywhere ==
  \A rq \in Requests :
    (rq.op = "DELETE" /\ rq.pc = "done" /\ rq.failed = "no"
       /\ rq.found = "present") =>
      /\ rq.status = 204
      /\ rq.body = Body("empty", {})
      /\ rq.id \notin DOMAIN table

\* C9: when the blob store's delete fails during an update or a delete, the
\* handler carries on: the database write is still made and the request
\* does not fail.
C9_BlobDeleteFailureTolerated ==
  \A rq \in Requests :
    (rq.failed = "blobdelete" /\ Finished(rq)) =>
      /\ rq.pc = "done"
      /\ rq.status \in {200, 204}
      /\ rq.writes = 1

\* C10: every non-null media field of every row is a URL that an upload of
\* the blob store adapter returned, a public URL under the bucket.
C10_MediaIsAdapterUrl ==
  \A i \in DOMAIN table :
    table[i].media # NULL =>
      /\ table[i].media \in issued
      /\ \E t \in 0..MaxTime, n \in FileNames \cup {<<"s", ToString(j)>> : j \in Ids} :
           table[i].media = publicUrl(uniqueFilename(t, n))

C10_Witness ==
  \E rq \in Requests, i \in DOMAIN table :
    /\ rq.op \in {"POST", "PUT"} /\ rq.pc = "done" /\ rq.writes = 1
    /\ rq.upUrls # <<>>
    /\ table[i].media = rq.upUrls[1]
    /\ table[i].text = rq.text

\* two updates with a file, of the same row, that are handled together
FileUpdatesOfOneRow(a, b) ==
  /\ a.op = "PUT" /\ b.op = "PUT"
  /\ a.file # <<>> /\ b.file # <<>>
  /\ a.id = b.id
  /\ a.upUrls # <<>> /\ b.upUrls # <<>>
  /\ a.upUrls # b.upUrls

\* both read the row before either wrote it
ReadTheSameRow(a, b) == a.existing = b.existing /\ a.existing # <<>>

Deletes(a, url) == \E k \in 1..Len(a.delCalls) : a.delCalls[k] = url

\* C11 (as amended): of two updates with a file of the same row, never does
\* each delete the blob the other uploaded; when both read the row before
\* either wrote it, neither deletes the other's upload: each asks the store
\* to delete nothing but the URL it read, the same one for both.
C11_NoMutualDeletion ==
  \A a \in Requests, b \in Requests :
    FileUpdatesOfOneRow(a, b) =>
      /\ ~(Deletes(a, b.upUrls[1]) /\ Deletes(b, a.upUrls[1]))
      /\ ReadTheSameRow(a, b) =>
           /\ ~Deletes(a, b.upUrls[1])
           /\ ~Deletes(b, a.upUrls[1])
           /\ \A k \in 1..Len(a.delCalls) : a.delCalls[k] = a.existing[1].media
           /\ \A k \in 1..Len(b.delCalls) : b.delCalls[k] = a.existing[1].media

\* two such updates that raced and both succeeded: both asked for the same
\* old blob to be deleted, and both uploads are still in the bucket
C11_Witness ==
  \E a \in Requests, b \in Requests :
    /\ FileUpdatesOfOneRow(a, b) /\ ReadTheSameRow(a, b)
    /\ a.pc = "done" /\ a.status = 200
    /\ b.pc = "done" /\ b.status = 200
    /\ Len(a.delCalls) = 1 /\ a.delCalls = b.delCalls
    /\ filePath(a.upUrls[1]) \in bucket
    /\ filePath(b.upUrls[1]) \in bucket

\* C11 as first stated: two updates with a file of the same row that race
\* and both succeed have each deleted the blob the other uploaded, so that
\* neither upload is left in the bucket.
C11_EachDeletesTheOthersUpload ==
  \A a \in Requests, b \in Requests :
    (FileUpdatesOfOneRow(a, b) /\ ReadTheSameRow(a, b)
       /\ a.pc = "done" /\ a.status = 200
       /\ b.pc = "done" /\ b.status = 200) =>
      /\ Deletes(a, b.upUrls[1])
      /\ Deletes(b, a.upUrls[1])
      /\ filePath(a.upUrls[1]) \notin bucket
      /\ filePath(b.upUrls[1]) \notin bucket

---------------------------------------------------------------------------
(* Creating a row and fetching it *)

\* a create that returned id i, and a GET of i that found the row, with no
\* update of i among the requests
CreatedThenFetched(p, g) ==
  /\ p.op = "POST" /\ p.pc = "done" /\ p.status = 200
  /\ g.op = "GET" /\ g.pc = "done" /\ g.status = 200
  /\ \E e \in p.body.rows : e[1] = g.id
  /\ g.body.rows # {}
  /\ ~\E u \in Requests : u.op = "PUT" /\ u.id = g.id /\ u.writes > 0

\* C12 (as amended): a row fetched by the id its create returned, with no
\* write to it in between, holds the submitted text, the uploaded URL as
\* its media (null when no file was attached) and, on news, the submitted
\* publishedAt as the instant it names, in ISO form.
C12_CreateThenGet ==
  \A p \in Requests, g \in Requests :
    CreatedThenFetched(p, g) =>
      /\ g.body.kind = "row"
      /\ \A e \in g.body.rows :
           /\ e[1] = g.id
           /\ e[2].text = p.text
           /\ e[2].media = IF p.file = <<>> THEN NULL ELSE p.upUrls[1]
           /\ e[2].publishedAt =
                 (CASE R # "news" -> NoDate
                    [] p.publishedAt \in {"2024-01-01", "2024-01-01T00:00:00.000Z"}
                         -> "2024-01-01T00:00:00.000Z"
                    [] p.publishedAt \in {"2024-01-02", "2024-01-02T00:00:00.000Z"}
                         -> "2024-01-02T00:00:00.000Z")

\* a news item created with a file and a date-only publishedAt, fetched
C12_Witness ==
  \E p \in Requests, g \in Requests :
    /\ CreatedThenFetched(p, g)
    /\ R = "news"
    /\ p.file # <<>>
    /\ p.publishedAt = "2024-01-01"
    /\ \E e \in g.body.rows : e[2].media = p.upUrls[1]

\* C12 as first stated: the fetched row equals the submitted fields, field
\* for field.
C12_FieldForField ==
  \A p \in Requests, g \in Requests :
    CreatedThenFetched(p, g) =>
      \A e \in g.body.rows :
        /\ e[1] = g.id
        /\ e[2].text = p.text
        /\ e[2].media = IF p.file = <<>> THEN NULL ELSE p.upUrls[1]
        /\ e[2].publishedAt = p.publishedAt

---------------------------------------------------------------------------
(* Rows and the blobs they point at *)

\* every request has been answered and no store call has failed
AllAnsweredNoFailure ==
  \A rq \in Requests : rq.pc = "done" /\ rq.failed = "no"

\* the rows whose media URL names a key that is not in the bucket
Dangling == {i \in DOMAIN table :
               table[i].media # NULL /\ filePath(table[i].media) \notin bucket}

\* C13: when requests on one row are handled together and no store call
\* fails, no row is left pointing at a blob that has been deleted.
C13_NoRowPointsAtDeletedBlob ==
  AllAnsweredNoFailure => Dangling = {}

---------------------------------------------------------------------------
(* Properties of requests handled one after the other (SpecSeq) *)

\* the public URLs of the blobs in the bucket
StoredUrls == {publicUrl(key) : key \in bucket}

\* C14: after any number of creates, updates and deletes handled one
\* after the other, every store call succeeding, on a table and a bucket
\* that started empty, the blobs in the bucket are those of the non-null
\* media URLs of the rows, and no two rows hold the same URL.
C14_BucketMatchesRows ==
  Quiet =>
    /\ StoredUrls = MediaOf(table)
    /\ \A i \in DOMAIN table : table[i].media # NULL => filePath(table[i].media) \in bucket
    /\ \A i \in DOMAIN table, j \in DOMAIN table :
         (i # j /\ table[i].media # NULL) => table[i].media # table[j].media

\* an update has just replaced the file of one of two rows that have one
C14_Witness ==
  /\ Quiet
  /\ \E rq \in Requests :
       /\ rq.op = "PUT" /\ rq.status = 200
       /\ rq.upUrls # <<>> /\ rq.delCalls # <<>>
       /\ filePath(rq.delCalls[1]) \notin bucket
  /\ Cardinality({i \in DOMAIN table : table[i].media # NULL}) >= 2
  /\ Cardinality(bucket) >= 2

---------------------------------------------------------------------------
(* Properties of the login and the token guard (specification SpecAuth) *)

SecureDone(a) == auth[a].kind = "secure" /\ auth[a].pc = "done"
LoginDone(a) == auth[a].kind = "login" /\ auth[a].pc = "done"

\* the moments at which a token was issued
IssuedAt(token) == {e[2] : e \in {x \in tokenLog : x[1] = token}}

\* C5: a request to the guarded route with a correctly signed token whose
\* expiry has passed is answered 403 "Token expired, please log in again".
C5_ExpiredTokenSaysExpired ==
  \A a \in AuthSlots :
    LET token == bearerToken(auth[a].header) IN
    (SecureDone(a) /\ IssuedAt(token) # {}
       /\ auth[a].t1 \div MsPerSec >= token[4]) =>
      /\ auth[a].status = 403
      /\ auth[a].msg = TokenExpired

\* C6 (as amended): a token issued by a successful login at time t encodes
\* the administrator's id and an expiry of 3600 s after t cut to whole
\* seconds.  The guarded route answers 200 with that token when the clock of
\* its check is before that expiry and has not passed it at the guard's
\* second reading, and 403 otherwise, without reaching the route body; a
\* request with no bearer token is answered 401 and never reaches it.
C6_TokenLifetime ==
  /\ \A e \in tokenLog :
       e[1] = <<SECRET_KEY, 1, e[2] \div MsPerSec, (e[2] \div MsPerSec) + ExpiresIn>>
  /\ \A a \in AuthSlots :
       LET token == bearerToken(auth[a].header) IN
       SecureDone(a) =>
         /\ token = <<>> => (auth[a].status = 401 /\ ~auth[a].reached)
         /\ IssuedAt(token) # {} =>
              IF /\ auth[a].t1 \div MsPerSec < token[4]
                 /\ auth[a].t2 <= token[4] * MsPerSec
              THEN auth[a].status = 200 /\ auth[a].reached
              ELSE auth[a].status = 403 /\ ~auth[a].reached

\* a login that issued a token at t, and a request with that token that is
\* rejected although the clock is still before t + 1 hour
C6_Witness ==
  \E a \in AuthSlots, b \in AuthSlots :
    /\ SecureDone(a) /\ auth[a].status = 403
    /\ \E t \in IssuedAt(bearerToken(auth[a].header)) :
         auth[a].t2 < t + ExpiresIn * MsPerSec
    /\ LoginDone(b) /\ auth[b].status = 200
    /\ auth[b].token = bearerToken(auth[a].header)

\* C6 as first stated: with a token issued at t the route answers 200 at
\* every time before t + 1 hour and 403 at every time after it.
C6_ExactlyOneHour ==
  \A a \in AuthSlots :
    SecureDone(a) =>
      \A t \in IssuedAt(bearerToken(auth[a].header)) :
        /\ auth[a].t2 < t + ExpiresIn * MsPerSec => auth[a].status = 200
        /\ auth[a].t1 > t + ExpiresIn * MsPerSec => auth[a].status = 403

\* C7: a login with an unknown username and a login with a known username
\* and a wrong password get the same answer, 401 with the same message, and
\* no token.
C7_LoginFailuresAlike ==
  \A a \in AuthSlots :
    (LoginDone(a) /\ ~auth[a].dbError
       /\ \/ findAdmin(auth[a].username) = <<>>
          \/ /\ auth[a].password # UNDEFINED
             /\ ~bcryptCompare(auth[a].password, findAdmin(auth[a].username)[1].password)) =>
      /\ auth[a].status = 401
      /\ auth[a].msg = InvalidLogin
      /\ auth[a].token = <<>>
      /\ \A b \in AuthSlots :
           (LoginDone(b) /\ auth[b].status = 401) => auth[b].msg = auth[a].msg

C7_Witness ==
  \E a \in AuthSlots, b \in AuthSlots :
    /\ LoginDone(a) /\ findAdmin(auth[a].username) = <<>>
    /\ LoginDone(b) /\ findAdmin(auth[b].username) # <<>> /\ auth[b].password = "wrong"
    /\ auth[a].status = 401 /\ auth[b].status = 401
    /\ tokenLog = {}

====
